---- MODULE Spec2Model ----
(***************************************************************************)
(* Dependify 2.0 frontend: the OAuth callback page, the login page, the    *)
(* job status reducer and the multi-file diff card, as state machines.     *)
(***************************************************************************)
EXTENDS Integers, Sequences, FiniteSets, TLC

VARIABLES
    \* browser
    location,        \* route currently shown
    searchParams,    \* query parameters of the callback URL
    localStorage,    \* window.localStorage: key -> stored string
    timers,          \* pending setTimeout callbacks, in scheduling order
    scheduled,       \* the setTimeout calls of each owner since the page load
    fetchLog,        \* token-exchange requests sent since the last page load
    active,          \* run whose synchronous code is executing (0: none)
    uncaught,        \* an exception escaped handleCallback
    \* AuthCallback component
    status, errorMessage,
    pc,              \* where each handleCallback run stands
    rdata,           \* data of each run
    branch,          \* exit each run took
    inputs,          \* what the environment answered to each run, in order
    effects,         \* the calls each run made, in order
    \* LoginPage component
    isLoading, email, showEmailInput,
    \* job status reducer
    job,             \* the client's snapshot of the submitted job
    delivered,       \* event types delivered so far, in delivery order
    seen,            \* statuses the job has had
    \* MultiFileCodeCard component
    mounted,         \* "no", "yes" or "crashed" (render threw)
    files,           \* the files prop of the last render
    activeFile,      \* useState: name of the selected file
    hooks,           \* hooks called by the last render, in order
    userSelected,    \* a tab was clicked since the component was mounted
    memo,            \* useMemo cache of totalLines: dependency and value
    view,            \* what the last render returned
    hooksSeen        \* hook sequences the renders of this instance called

browserVars == <<location, searchParams, localStorage, timers, scheduled,
                 fetchLog, active, uncaught>>
callbackVars == <<status, errorMessage, pc, rdata, branch, inputs, effects>>
loginVars == <<isLoading, email, showEmailInput>>
authVars == <<browserVars, callbackVars, loginVars>>
jobVars == <<job, delivered, seen>>
cardVars == <<mounted, files, activeFile, hooks, userSelected, memo, view,
             hooksSeen>>
vars == <<authVars, jobVars, cardVars>>

----------------------------------------------------------------------------
(* Bounds                                                                  *)

\* handleCallback runs started by the effect during one visit of the page
MaxRuns == 2
\* progress events delivered to the reducer
MaxEvents == 6
\* length of the files prop of the diff card
MaxFiles == 2
\* email sign-ins submitted during one load of the application
MaxAttempts == 5

----------------------------------------------------------------------------
(* Values                                                                  *)

NULL == "<null>"

\* URLSearchParams.get: null when the parameter is absent, else its value
ParamValues == {NULL, "", "abc"}

\* JavaScript truthiness of a string-or-null value (if (error), if (!code))
Truthy(v) == v # NULL /\ v # ""

LoginPath == "/login"
DashboardPath == "/"
CallbackPath == "/auth/callback"
GitHubAuthorize == "https://github.com/login/oauth/authorize"

\* setTimeout(() => router.push("/login"), 3000)
LoginRedirectDelay == 3000
\* setTimeout(() => router.push("/"), 1500)
DashboardRedirectDelay == 1500
\* setTimeout(..., 1500) of the simulated email login
EmailLoginDelay == 1500
\* time passes in steps of the greatest common divisor of the delays
TickMs == 1500

Runs == 1..MaxRuns

\* bodies of a 2xx answer of POST /auth/github
Tokens == {"tok1"}
Users == {"octocat"}
Bodies == [access_token : Tokens, user : Users]

\* JSON.stringify(data.user)
JSONstringify(u) == <<"json", u>>

\* a store that keeps one item only: each write replaces the session
setItemReplacing(store, key, value) == [k \in {key} |-> value]

\* localStorage.setItem(key, value)
setItem(store, key, value) ==
    [k \in DOMAIN store \cup {key} |-> IF k = key THEN value ELSE store[k]]

EmptyStorage == [k \in {} |-> ""]

\* setTimeout(callback, delay), callback described by its owner and target
setTimeout(q, owner, target, delay) ==
    Append(q, [owner |-> owner, target |-> target, delay |-> delay,
               remaining |-> delay])

\* owners of timers: the handleCallback runs, and 0 for the login page
Owners == 0..MaxRuns
NoneScheduled == [o \in Owners |-> <<>>]

NoData == [access_token |-> NULL, user |-> NULL]

----------------------------------------------------------------------------
(* Browser: router, timers                                                 *)

\* the state a freshly mounted LoginPage has (useState initial values)
LoginMounted ==
    /\ isLoading' = FALSE
    /\ email' = ""
    /\ showEmailInput' = FALSE

\* router.push(target): client-side navigation; pending timers and requests
\* in flight survive it, the page left is unmounted, the page entered is
\* mounted with its initial state
routerPush(target) ==
    /\ location' = target
    /\ IF (target = LoginPath) # (location = LoginPath)
          THEN LoginMounted
          ELSE UNCHANGED loginVars

\* React ignores a state update of an unmounted component
setStatus(s) == IF location = CallbackPath THEN s ELSE status
setErrorMessage(m) == IF location = CallbackPath THEN m ELSE errorMessage

Schedule(owner, target, delay) ==
    /\ timers' = setTimeout(timers, owner, target, delay)
    /\ scheduled' = [scheduled EXCEPT ![owner] =
                       Append(@, [target |-> target, delay |-> delay])]

Due(i) == timers[i].remaining = 0

RemoveAt(q, i) == [j \in 1..(Len(q) - 1) |-> IF j < i THEN q[j] ELSE q[j + 1]]

\* time passes: no timer is due yet
Elapse ==
    /\ active = 0
    /\ timers # <<>>
    /\ \A i \in 1..Len(timers) : ~Due(i)
    /\ timers' = [i \in 1..Len(timers) |->
                    [timers[i] EXCEPT !.remaining = @ - TickMs]]
    /\ UNCHANGED <<location, searchParams, localStorage, scheduled, fetchLog,
                   active, uncaught, callbackVars, loginVars>>
    /\ UNCHANGED <<jobVars, cardVars>>

\* the event loop runs the callback of the first timer that is due:
\* () => router.push(target); the setIsLoading(false) that precedes it in
\* the email login is not observable, the push unmounts the LoginPage
FireTimer ==
    /\ active = 0
    /\ \E i \in 1..Len(timers) :
          /\ Due(i)
          /\ \A j \in 1..(i - 1) : ~Due(j)
          /\ timers' = RemoveAt(timers, i)
          /\ routerPush(timers[i].target)
    /\ UNCHANGED <<searchParams, localStorage, scheduled, fetchLog, active,
                   uncaught, callbackVars>>
    /\ UNCHANGED <<jobVars, cardVars>>

----------------------------------------------------------------------------
(* AuthCallback: handleCallback                                            *)

nextRun == Cardinality({r \in Runs : pc[r] # "idle"}) + 1

\* error exits that show the failure and leave the user there
showFailureNoRedirect(r, msg, br) ==
    /\ status' = setStatus("error")
    /\ errorMessage' = setErrorMessage(msg)
    /\ pc' = [pc EXCEPT ![r] = "done"]
    /\ branch' = [branch EXCEPT ![r] = br]
    /\ active' = 0
    /\ effects' = [effects EXCEPT ![r] = @ \o <<"setStatus", "setErrorMessage">>]
    /\ UNCHANGED <<timers, scheduled>>

\* the error exits of handleCallback: the two early returns and the catch
\* block all do setStatus("error"); setErrorMessage(msg);
\* setTimeout(() => router.push("/login"), 3000)
showFailure(r, msg, br) ==
    /\ status' = setStatus("error")
    /\ errorMessage' = setErrorMessage(msg)
    /\ Schedule(r, LoginPath, LoginRedirectDelay)
    /\ effects' = [effects EXCEPT ![r] =
                      @ \o <<"setStatus", "setErrorMessage", "setTimeout">>]
    /\ pc' = [pc EXCEPT ![r] = "done"]
    /\ branch' = [branch EXCEPT ![r] = br]
    /\ active' = 0

\* no catch block: the exception rejects the promise of handleCallback
catchErrorMissing(r) ==
    /\ uncaught' = TRUE
    /\ pc' = [pc EXCEPT ![r] = "done"]
    /\ branch' = [branch EXCEPT ![r] = "uncaught"]
    /\ active' = 0
    /\ UNCHANGED <<status, errorMessage, timers, scheduled, effects>>

\* catch (error) { console.error(...); ... }
catchError(r) ==
    /\ showFailure(r, "Failed to complete authentication", "catch")
    /\ UNCHANGED uncaught

\* handleCallback without the test of the error parameter
handleCallbackErrorIgnored(r) ==
    /\ location = CallbackPath
    /\ active = 0
    /\ r = nextRun
    /\ pc[r] = "idle"
    /\ LET code == searchParams.code
       IN  IF ~Truthy(code)
              THEN /\ showFailure(r, "No authorization code received",
                                  "no_code")
                   /\ UNCHANGED fetchLog
           ELSE /\ fetchLog' = Append(fetchLog, [run |-> r, code |-> code])
                /\ pc' = [pc EXCEPT ![r] = "awaitFetch"]
                /\ UNCHANGED <<status, errorMessage, timers, scheduled,
                               branch, active, effects>>
    /\ UNCHANGED <<location, searchParams, localStorage, uncaught, rdata,
                   inputs, loginVars>>
    /\ UNCHANGED <<jobVars, cardVars>>

\* the effect calls handleCallback(); it runs up to its first await
handleCallback(r) ==
    /\ location = CallbackPath
    /\ active = 0
    /\ r = nextRun
    /\ pc[r] = "idle"
    /\ LET code == searchParams.code
           error == searchParams.error
       IN  IF Truthy(error)
              THEN /\ showFailure(r, "Authentication was cancelled or failed",
                                  "error_param")
                   /\ UNCHANGED fetchLog
           ELSE IF ~Truthy(code)
              THEN /\ showFailure(r, "No authorization code received",
                                  "no_code")
                   /\ UNCHANGED fetchLog
           ELSE /\ fetchLog' = Append(fetchLog, [run |-> r, code |-> code])
                /\ pc' = [pc EXCEPT ![r] = "awaitFetch"]
                /\ UNCHANGED <<status, errorMessage, timers, scheduled,
                               branch, active, effects>>
    /\ UNCHANGED <<location, searchParams, localStorage, uncaught, rdata,
                   inputs, loginVars>>
    /\ UNCHANGED <<jobVars, cardVars>>

FetchOutcomes == {"reject", "notok", "ok"}

\* await fetch(...) settles; if (!response.ok) throw new Error(...)
fetchSettles(r, outcome) ==
    /\ active = 0
    /\ pc[r] = "awaitFetch"
    /\ IF outcome = "ok"
          THEN /\ pc' = [pc EXCEPT ![r] = "awaitJson"]
               /\ UNCHANGED <<status, errorMessage, timers, scheduled, branch,
                              active, uncaught, effects>>
          ELSE catchError(r)
    /\ inputs' = [inputs EXCEPT ![r] = Append(@, outcome)]
    /\ UNCHANGED <<location, searchParams, localStorage, fetchLog, rdata,
                   loginVars>>
    /\ UNCHANGED <<jobVars, cardVars>>

\* what response.json() can settle with: a body of the agreed shape, the
\* JSON value null (data.access_token then throws), or a rejection
JsonOutcomes ==
    {[kind |-> "data", data |-> b] : b \in Bodies}
        \cup {[kind |-> "null"], [kind |-> "reject"]}

\* const data = await response.json(); the run goes on synchronously
jsonSettles(r, body) ==
    /\ active = 0
    /\ pc[r] = "awaitJson"
    /\ IF body.kind = "data"
          THEN /\ rdata' = [rdata EXCEPT ![r] = body.data]
               /\ pc' = [pc EXCEPT ![r] = "storeToken"]
               /\ active' = r
               /\ UNCHANGED <<status, errorMessage, timers, scheduled, branch,
                              uncaught, effects>>
          ELSE /\ catchError(r)
               /\ UNCHANGED rdata
    /\ inputs' = [inputs EXCEPT ![r] = Append(@, body.kind)]
    /\ UNCHANGED <<location, searchParams, localStorage, fetchLog, loginVars>>
    /\ UNCHANGED <<jobVars, cardVars>>

\* localStorage.setItem("auth_token", data.access_token); setItem throws
\* when the storage is full or disabled
storeToken(r, ok) ==
    /\ active = r
    /\ pc[r] = "storeToken"
    /\ IF ok
          THEN /\ localStorage' = setItem(localStorage, "auth_token",
                                          rdata[r].access_token)
               /\ pc' = [pc EXCEPT ![r] = "storeUser"]
               /\ effects' = [effects EXCEPT ![r] =
                                 Append(@, "setItem:auth_token")]
               /\ UNCHANGED <<status, errorMessage, timers, scheduled, branch,
                              active, uncaught>>
          ELSE /\ catchError(r)
               /\ UNCHANGED localStorage
    /\ inputs' = [inputs EXCEPT ![r] =
                     Append(@, IF ok THEN "stored" ELSE "throw")]
    /\ UNCHANGED <<location, searchParams, fetchLog, rdata, loginVars>>
    /\ UNCHANGED <<jobVars, cardVars>>

\* localStorage.setItem("user", JSON.stringify(data.user))
storeUser(r, ok) ==
    /\ active = r
    /\ pc[r] = "storeUser"
    /\ IF ok
          THEN /\ localStorage' = setItem(localStorage, "user",
                                          JSONstringify(rdata[r].user))
               /\ pc' = [pc EXCEPT ![r] = "setSuccess"]
               /\ effects' = [effects EXCEPT ![r] = Append(@, "setItem:user")]
               /\ UNCHANGED <<status, errorMessage, timers, scheduled, branch,
                              active, uncaught>>
          ELSE /\ catchError(r)
               /\ UNCHANGED localStorage
    /\ inputs' = [inputs EXCEPT ![r] =
                     Append(@, IF ok THEN "stored" ELSE "throw")]
    /\ UNCHANGED <<location, searchParams, fetchLog, rdata, loginVars>>
    /\ UNCHANGED <<jobVars, cardVars>>

\* setStatus("success")
setSuccess(r) ==
    /\ active = r
    /\ pc[r] = "setSuccess"
    /\ status' = setStatus("success")
    /\ effects' = [effects EXCEPT ![r] = Append(@, "setStatus")]
    /\ pc' = [pc EXCEPT ![r] = "redirect"]
    /\ UNCHANGED <<location, searchParams, localStorage, timers, scheduled,
                   fetchLog, active, uncaught, errorMessage, rdata, branch,
                   inputs, loginVars>>
    /\ UNCHANGED <<jobVars, cardVars>>

\* the success path ending without a redirect
scheduleDashboardMissing(r) ==
    /\ active = r
    /\ pc[r] = "redirect"
    /\ pc' = [pc EXCEPT ![r] = "done"]
    /\ branch' = [branch EXCEPT ![r] = "success"]
    /\ active' = 0
    /\ UNCHANGED <<location, searchParams, localStorage, timers, scheduled,
                   fetchLog, uncaught, status, errorMessage, rdata, inputs,
                   effects, loginVars>>
    /\ UNCHANGED <<jobVars, cardVars>>

\* setTimeout(() => router.push("/"), 1500)
scheduleDashboard(r) ==
    /\ active = r
    /\ pc[r] = "redirect"
    /\ Schedule(r, DashboardPath, DashboardRedirectDelay)
    /\ effects' = [effects EXCEPT ![r] = Append(@, "setTimeout")]
    /\ pc' = [pc EXCEPT ![r] = "done"]
    /\ branch' = [branch EXCEPT ![r] = "success"]
    /\ active' = 0
    /\ UNCHANGED <<location, searchParams, localStorage, fetchLog, uncaught,
                   status, errorMessage, rdata, inputs, loginVars>>
    /\ UNCHANGED <<jobVars, cardVars>>

----------------------------------------------------------------------------
(* LoginPage                                                               *)

Emails == {"", "a@b.c"}

\* onClick={() => setShowEmailInput(true)}
showEmail ==
    /\ location = LoginPath
    /\ active = 0
    /\ ~showEmailInput
    /\ showEmailInput' = TRUE
    /\ UNCHANGED <<browserVars, callbackVars, isLoading, email>>
    /\ UNCHANGED <<jobVars, cardVars>>

\* "Back to options": onClick={() => setShowEmailInput(false)}
hideEmail ==
    /\ location = LoginPath
    /\ active = 0
    /\ showEmailInput
    /\ showEmailInput' = FALSE
    /\ UNCHANGED <<browserVars, callbackVars, isLoading, email>>
    /\ UNCHANGED <<jobVars, cardVars>>

\* onChange={(e) => setEmail(e.target.value)}
setEmail(e) ==
    /\ location = LoginPath
    /\ active = 0
    /\ showEmailInput
    /\ email # e
    /\ email' = e
    /\ UNCHANGED <<browserVars, callbackVars, isLoading, showEmailInput>>
    /\ UNCHANGED <<jobVars, cardVars>>

\* a full page load: the JavaScript realm of the page left is discarded
\* (timers, requests in flight, component state); localStorage stays
PageLoad(target, params) ==
    /\ location' = target
    /\ searchParams' = params
    /\ timers' = <<>>
    /\ scheduled' = NoneScheduled
    /\ fetchLog' = <<>>
    /\ active' = 0
    /\ status' = "loading"
    /\ errorMessage' = ""
    /\ pc' = [r \in Runs |-> "idle"]
    /\ rdata' = [r \in Runs |-> NoData]
    /\ branch' = [r \in Runs |-> "none"]
    /\ inputs' = [r \in Runs |-> <<>>]
    /\ effects' = [r \in Runs |-> <<>>]
    /\ UNCHANGED <<localStorage, uncaught>>

NoParams == [code |-> NULL, error |-> NULL]

\* GitHub button, disabled={isLoading}: setIsLoading(true);
\* window.location.href = https://github.com/login/oauth/authorize?...
handleGitHubLogin ==
    /\ location = LoginPath
    /\ active = 0
    /\ ~isLoading
    /\ isLoading' = TRUE
    /\ PageLoad(GitHubAuthorize, NoParams)
    /\ UNCHANGED <<email, showEmailInput>>
    /\ UNCHANGED <<jobVars, cardVars>>

\* GitHub redirects the browser to redirect_uri with ?code=... or ?error=...
GitHubRedirectBack(code, error) ==
    /\ location = GitHubAuthorize
    /\ PageLoad(CallbackPath, [code |-> code, error |-> error])
    /\ LoginMounted
    /\ UNCHANGED <<jobVars, cardVars>>

\* form onSubmit, submit button disabled={isLoading || !email}:
\* setIsLoading(true); setTimeout(() => { setIsLoading(false);
\* router.push("/") }, 1500)
handleEmailLogin ==
    /\ location = LoginPath
    /\ active = 0
    /\ showEmailInput
    /\ ~isLoading
    /\ Truthy(email)
    /\ isLoading' = TRUE
    /\ Schedule(0, DashboardPath, EmailLoginDelay)
    /\ UNCHANGED <<location, searchParams, localStorage, fetchLog, active,
                   uncaught, callbackVars, email, showEmailInput>>
    /\ UNCHANGED <<jobVars, cardVars>>

\* the timers of handleEmailLogin that have not fired yet
EmailTimers == {i \in 1..Len(timers) : timers[i].owner = 0}

\* the pages of the application in the session history of a document that
\* was loaded at /login: /login itself, and / once a timer of
\* handleEmailLogin has run router.push("/")
HistoryEntries ==
    IF Len(scheduled[0]) > Cardinality(EmailTimers)
       THEN {LoginPath, DashboardPath}
       ELSE {LoginPath}

\* the user goes back or forward in the session history: the App Router
\* (useRouter of next/navigation) serves the entry client-side, so timers
\* survive, the page left is unmounted and the LoginPage entered starts
\* from its useState initial values
historyTraverse(target) ==
    /\ active = 0
    /\ location \in HistoryEntries
    /\ target \in HistoryEntries \ {location}
    /\ Len(scheduled[0]) < MaxAttempts
    /\ routerPush(target)
    /\ UNCHANGED <<searchParams, localStorage, timers, scheduled, fetchLog,
                   active, uncaught, callbackVars>>
    /\ UNCHANGED <<jobVars, cardVars>>

----------------------------------------------------------------------------
(* Authentication pages: specification                                     *)

InitBrowser ==
    /\ \/ /\ location = LoginPath
          /\ searchParams = NoParams
       \/ /\ location = CallbackPath
          /\ searchParams \in [code : ParamValues, error : ParamValues]
    /\ localStorage = EmptyStorage
    /\ timers = <<>>
    /\ scheduled = NoneScheduled
    /\ fetchLog = <<>>
    /\ active = 0
    /\ uncaught = FALSE

InitCallback ==
    /\ status = "loading"
    /\ errorMessage = ""
    /\ pc = [r \in Runs |-> "idle"]
    /\ rdata = [r \in Runs |-> NoData]
    /\ branch = [r \in Runs |-> "none"]
    /\ inputs = [r \in Runs |-> <<>>]
    /\ effects = [r \in Runs |-> <<>>]

InitLogin ==
    /\ isLoading = FALSE
    /\ email = ""
    /\ showEmailInput = FALSE

NextAuth ==
    \/ \E r \in Runs : handleCallback(r)
    \/ \E r \in Runs, o \in FetchOutcomes : fetchSettles(r, o)
    \/ \E r \in Runs, b \in JsonOutcomes : jsonSettles(r, b)
    \/ \E r \in Runs, ok \in BOOLEAN : storeToken(r, ok)
    \/ \E r \in Runs, ok \in BOOLEAN : storeUser(r, ok)
    \/ \E r \in Runs : setSuccess(r)
    \/ \E r \in Runs : scheduleDashboard(r)
    \/ Elapse
    \/ FireTimer
    \/ showEmail
    \/ hideEmail
    \/ \E e \in Emails : setEmail(e)
    \/ handleGitHubLogin
    \/ \E c \in ParamValues, e \in ParamValues : GitHubRedirectBack(c, e)
    \/ handleEmailLogin

----------------------------------------------------------------------------
(* Job State Machine (spec section 4.4)                                    *)

Canonical ==
    <<"queued", "analyzing", "refactoring", "validating", "committing",
      "opened">>

Statuses == {Canonical[i] : i \in 1..Len(Canonical)} \cup {"failed"}

\* position of a status in the canonical sequence
Rank(s) == CHOOSE i \in 1..Len(Canonical) : Canonical[i] = s

Terminal(s) == s \in {"opened", "failed"}

\* a reducer without the ordering table: the last event wins
reduceLastWins(j, eventType) ==
    IF Terminal(j.status) THEN j ELSE [j EXCEPT !.status = eventType]

\* a reducer in which only opened is final
reduceFailedNotSticky(j, eventType) ==
    IF j.status = "opened" THEN j
    ELSE IF eventType = "failed" \/ j.status = "failed"
         THEN [j EXCEPT !.status = eventType]
    ELSE IF Rank(eventType) < Rank(j.status) THEN j
    ELSE [j EXCEPT !.status = eventType]

\* a reducer that takes each event as "one more step done"
reduceStepper(j, eventType) ==
    IF Terminal(j.status) THEN j
    ELSE IF eventType = "failed" THEN [j EXCEPT !.status = "failed"]
    ELSE IF Rank(eventType) < Rank(j.status) THEN j
    ELSE [j EXCEPT !.status = Canonical[Rank(j.status) + 1]]

\* a reducer that accepts the next status of the sequence only
reduceAdjacentOnly(j, eventType) ==
    IF Terminal(j.status) THEN j
    ELSE IF eventType = "failed" THEN [j EXCEPT !.status = "failed"]
    ELSE IF Rank(eventType) = Rank(j.status) + 1
         THEN [j EXCEPT !.status = eventType]
    ELSE j

\* the reducer: folds one event into the job snapshot
reduce(j, eventType) ==
    IF Terminal(j.status) THEN j
    ELSE IF eventType = "failed" THEN [j EXCEPT !.status = "failed"]
    ELSE IF Rank(eventType) < Rank(j.status) THEN j
    ELSE [j EXCEPT !.status = eventType]

InitJob ==
    /\ job = [status |-> "queued"]
    /\ delivered = <<>>
    /\ seen = {"queued"}

\* the subscription delivers one ProgressEvent
Deliver(eventType) ==
    /\ Len(delivered) < MaxEvents
    /\ job' = reduce(job, eventType)
    /\ delivered' = Append(delivered, eventType)
    /\ seen' = seen \cup {job'.status}
    /\ UNCHANGED <<authVars, cardVars>>

NextJobs == \E e \in Statuses : Deliver(e)

----------------------------------------------------------------------------
(* MultiFileCodeCard                                                       *)

\* contents are sequences of characters
Code1 == <<"x">>
Code2 == <<"x", "\n", "y">>
Empty == <<>>

\* a side of a Comparison: absent (undefined) or a CodeFile
Absent == [present |-> FALSE, name |-> "", content |-> Empty]
CodeFile(n, c) == [present |-> TRUE, name |-> n, content |-> c]

FileUniverse ==
    { [old |-> CodeFile("a.js", Code1), new |-> CodeFile("a.js", Code2)],
      [old |-> CodeFile("b.js", Code2), new |-> CodeFile("b.js", Code1)],
      [old |-> CodeFile("a.js", Empty), new |-> CodeFile("a.js", Empty)],
      [old |-> CodeFile("", Code1),     new |-> CodeFile("", Code1)],
      [old |-> Absent,                  new |-> CodeFile("c.js", Code2)],
      [old |-> CodeFile("b.js", Code1), new |-> Absent] }

Arrays == UNION {[1..n -> FileUniverse] : n \in 0..MaxFiles}

\* values the files prop can have at run time: an array, undefined (the
\* default [] applies), null, or a non-array object
FileProps ==
    {[kind |-> "array", items |-> a] : a \in Arrays}
        \cup {[kind |-> k, items |-> <<>>] :
                 k \in {"undefined", "null", "object"}}

\* { files = [] }: the default replaces undefined only
withDefault(f) ==
    IF f.kind = "undefined" THEN [kind |-> "array", items |-> <<>>] ELSE f

\* x || y on strings
OrElse(x, y) == IF x # "" THEN x ELSE y

\* files[0]?.old?.name || ""  (files[0] of null throws a TypeError)
firstName(f) ==
    IF f.kind = "array" /\ Len(f.items) > 0 /\ f.items[1].old.present
       THEN OrElse(f.items[1].old.name, "")
       ELSE ""

\* !files || !Array.isArray(files) || files.length === 0
noFiles(f) == f.kind # "array" \/ Len(f.items) = 0

\* the hooks one render calls: useMemo comes after the early return
hooksOf(f) ==
    IF noFiles(f) THEN <<"useState">> ELSE <<"useState", "useMemo">>

\* a render throws when files[0] is evaluated on null, or when React finds
\* another number of hooks than in the previous render
renderThrows(f, previousHooks) ==
    \/ f.kind = "null"
    \/ previousHooks # <<>> /\ hooksOf(f) # previousHooks

\* content.split("\n").length
splitLength(c) == 1 + Cardinality({i \in 1..Len(c) : c[i] = "\n"})

\* file?.old?.content || ""
beforeCode(file) == IF file.old.present THEN file.old.content ELSE Empty

\* file?.new?.content || ""
afterCode(file) == IF file.new.present THEN file.new.content ELSE Empty

\* files.reduce((acc, file) => acc + content.split("\n").length, 0)
RECURSIVE reduceLines(_, _)
reduceLines(items, acc) ==
    IF items = <<>> THEN acc
    ELSE reduceLines(Tail(items), acc + splitLength(afterCode(Head(items))))

\* a memo that is computed once and never again (dependency list [])
useMemoOnce(m, f) ==
    IF m.valid THEN m
    ELSE [valid |-> TRUE, deps |-> f, value |-> reduceLines(f.items, 0)]

\* useMemo(() => ..., [files]): recomputed when files changed
useMemo(m, f) ==
    IF m.valid /\ m.deps = f THEN m
    ELSE [valid |-> TRUE, deps |-> f, value |-> reduceLines(f.items, 0)]

NoMemo == [valid |-> FALSE, deps |-> [kind |-> "array", items |-> <<>>],
           value |-> 0]

\* panel list: const fileName = file?.old?.name || ""
panelName(f, i) ==
    IF f.items[i].old.present THEN OrElse(f.items[i].old.name, "") ELSE ""

\* String(index)
IndexName(i) ==
    CASE i = 0 -> "file-0" [] i = 1 -> "file-1" [] i = 2 -> "file-2"
      [] OTHER -> "file-n"

\* tab list: const fileName = file?.old?.name || `file-${index}`
tabName(f, i) ==
    IF f.items[i].old.present
       THEN OrElse(f.items[i].old.name, IndexName(i - 1))
       ELSE IndexName(i - 1)

\* nothing on screen: not mounted, or the render threw
NoView == [kind |-> "nothing", tabs |-> <<>>, panels |-> <<>>,
           stats |-> <<>>, prButton |-> FALSE]

\* the early return: the card with the title "No files to display"
EmptyView == [kind |-> "empty", tabs |-> <<>>, panels |-> <<>>,
              stats |-> <<>>, prButton |-> FALSE]

\* indices of the files whose panel is rendered:
\* fileName === activeFile && (<div> ... <Compare .../> </div>)
shownPanels(f, sel) ==
    SelectSeq([i \in 1..Len(f.items) |-> i],
              LAMBDA i : panelName(f, i) = sel)

\* the JSX the component returns
render(f, sel, m) ==
    IF noFiles(f) THEN EmptyView
    ELSE [kind |-> "card",
          tabs |-> [i \in 1..Len(f.items) |->
                      [name |-> tabName(f, i),
                       highlighted |-> (sel = tabName(f, i))]],
          panels |-> [k \in 1..Len(shownPanels(f, sel)) |->
                        LET i == shownPanels(f, sel)[k]
                        IN  [index |-> i,
                             before |-> beforeCode(f.items[i]),
                             after |-> afterCode(f.items[i])]],
          stats |-> <<Len(f.items), m.value>>,
          prButton |-> TRUE]

\* the hooks a render calls before it throws or returns: files[0] of null
\* throws while the argument of useState is evaluated
hooksCalled(f) == IF f.kind = "null" THEN {} ELSE {hooksOf(f)}

InitCard ==
    /\ mounted = "no"
    /\ files = [kind |-> "array", items |-> <<>>]
    /\ activeFile = ""
    /\ hooks = <<>>
    /\ userSelected = FALSE
    /\ memo = NoMemo
    /\ view = NoView
    /\ hooksSeen = {}

\* first render: useState(files[0]?.old?.name || "")
Mount(prop) ==
    /\ mounted = "no"
    /\ LET f == withDefault(prop)
       IN  /\ files' = f
           /\ hooksSeen' = hooksCalled(f)
           /\ IF renderThrows(f, <<>>)
                 THEN /\ mounted' = "crashed"
                      /\ view' = NoView
                      /\ UNCHANGED <<activeFile, hooks, memo>>
                 ELSE /\ mounted' = "yes"
                      /\ activeFile' = firstName(f)
                      /\ hooks' = hooksOf(f)
                      /\ memo' = IF noFiles(f) THEN memo ELSE useMemo(memo, f)
                      /\ view' = render(f, activeFile', memo')
    /\ userSelected' = FALSE
    /\ UNCHANGED <<authVars, jobVars>>

\* the parent renders the card again with another files prop: useState
\* keeps the state and ignores its argument
Rerender(prop) ==
    /\ mounted = "yes"
    /\ LET f == withDefault(prop)
       IN  /\ f # files
           /\ files' = f
           /\ hooksSeen' = hooksSeen \cup hooksCalled(f)
           /\ IF renderThrows(f, hooks)
                 THEN /\ mounted' = "crashed"
                      /\ view' = NoView
                      /\ UNCHANGED <<hooks, memo>>
                 ELSE /\ hooks' = hooksOf(f)
                      /\ memo' = IF noFiles(f) THEN memo ELSE useMemo(memo, f)
                      /\ view' = render(f, activeFile, memo')
                      /\ UNCHANGED mounted
    /\ UNCHANGED <<activeFile, userSelected>>
    /\ UNCHANGED <<authVars, jobVars>>

\* onClick={() => setActiveFile(fileName)} of the i-th tab, and the render
\* the state change causes
ClickTab(i) ==
    /\ mounted = "yes"
    /\ ~noFiles(files)
    /\ i \in 1..Len(files.items)
    /\ activeFile' = tabName(files, i)
    /\ userSelected' = TRUE
    /\ memo' = useMemo(memo, files)
    /\ view' = render(files, activeFile', memo')
    /\ UNCHANGED <<mounted, files, hooks, hooksSeen>>
    /\ UNCHANGED <<authVars, jobVars>>

\* the parent stops rendering the card, or the error boundary resets
Unmount ==
    /\ mounted # "no"
    /\ mounted' = "no"
    /\ files' = [kind |-> "array", items |-> <<>>]
    /\ activeFile' = ""
    /\ hooks' = <<>>
    /\ userSelected' = FALSE
    /\ memo' = NoMemo
    /\ view' = NoView
    /\ hooksSeen' = {}
    /\ UNCHANGED <<authVars, jobVars>>

NextCards ==
    \/ \E p \in FileProps : Mount(p)
    \/ \E p \in FileProps : Rerender(p)
    \/ \E i \in 1..MaxFiles : ClickTab(i)
    \/ Unmount

----------------------------------------------------------------------------
(* Specifications                                                          *)

InitAuth == InitBrowser /\ InitCallback /\ InitLogin /\ InitJob /\ InitCard
SpecAuth == InitAuth /\ [][NextAuth]_vars

\* the login page alone, loaded at /login, with the user moving in the
\* session history
NextLogin ==
    \/ showEmail
    \/ hideEmail
    \/ \E e \in Emails : setEmail(e)
    \/ handleGitHubLogin
    \/ handleEmailLogin
    \/ Elapse
    \/ FireTimer
    \/ \E target \in {LoginPath, DashboardPath} : historyTraverse(target)

InitLoginPage == InitAuth /\ location = LoginPath

SpecLogin == InitLoginPage /\ [][NextLogin]_vars

\* every promise a run awaits settles, and the engine runs the synchronous
\* code that follows to its end
RunProgress(r) ==
    /\ WF_vars(\E o \in FetchOutcomes : fetchSettles(r, o))
    /\ WF_vars(\E b \in JsonOutcomes : jsonSettles(r, b))
    /\ WF_vars(\E ok \in BOOLEAN : storeToken(r, ok))
    /\ WF_vars(\E ok \in BOOLEAN : storeUser(r, ok))
    /\ WF_vars(setSuccess(r))
    /\ WF_vars(scheduleDashboard(r))

\* the OAuth round trip alone: the callback page, its timers, and the
\* GitHub button of the login page that starts the next visit
NextOAuth ==
    \/ \E r \in Runs : handleCallback(r)
    \/ \E r \in Runs, o \in FetchOutcomes : fetchSettles(r, o)
    \/ \E r \in Runs, b \in JsonOutcomes : jsonSettles(r, b)
    \/ \E r \in Runs, ok \in BOOLEAN : storeToken(r, ok)
    \/ \E r \in Runs, ok \in BOOLEAN : storeUser(r, ok)
    \/ \E r \in Runs : setSuccess(r)
    \/ \E r \in Runs : scheduleDashboard(r)
    \/ Elapse
    \/ FireTimer
    \/ handleGitHubLogin
    \/ \E c \in ParamValues, e \in ParamValues : GitHubRedirectBack(c, e)

FairOAuth ==
    /\ InitAuth
    /\ [][NextOAuth]_vars
    /\ \A r \in Runs : RunProgress(r)

InitJobs == InitBrowser /\ location = LoginPath /\ InitCallback /\ InitLogin
            /\ InitJob /\ InitCard
SpecJob == InitJobs /\ [][NextJobs]_vars

InitCards == InitBrowser /\ location = LoginPath /\ InitCallback /\ InitLogin
             /\ InitJob /\ InitCard
SpecCard == InitCards /\ [][NextCards]_vars

----------------------------------------------------------------------------
(* Properties of the OAuth callback page                                   *)

\* the setTimeout calls a run made
ScheduledBy(r) == scheduled[r]

Stored(k) == k \in DOMAIN localStorage

LoginRedirect == [target |-> "/login", delay |-> 3000]
DashboardRedirect == [target |-> "/", delay |-> 1500]

\* what a run owes the claim of C1, once started
FailureShown(r) ==
    pc[r] # "idle" =>
        /\ pc[r] = "done"
        /\ status = "error"
        /\ ScheduledBy(r) = <<LoginRedirect>>

\* C1 as stated: when the callback page is opened with an error parameter
\* (present in the URL) or without a code parameter, every run shows the
\* failure state and schedules only a navigation to /login after 3000 ms.
C1_ErrorOrNoCode_AsStated ==
    (searchParams.error # NULL \/ searchParams.code = NULL) =>
        \A r \in Runs : FailureShown(r)

\* C1 amended: when the error parameter has a non-empty value, or the code
\* parameter is absent or empty, every run shows the failure state
\* (status "error") and schedules exactly one navigation, to /login after
\* 3000 ms; none to the dashboard.
C1_ErrorOrNoCode ==
    (Truthy(searchParams.error) \/ ~Truthy(searchParams.code)) =>
        \A r \in Runs : FailureShown(r)

C1_Witness ==
    /\ location = CallbackPath
    /\ Truthy(searchParams.error)
    /\ Truthy(searchParams.code)
    /\ pc[1] = "done"
    /\ status = "error"
    /\ Len(timers) = 1
    /\ timers[1].target = "/login"

SuccessInputs == <<"ok", "data", "stored", "stored">>

SessionOf(r) ==
    /\ Stored("auth_token")
    /\ Stored("user")
    /\ localStorage["auth_token"] = rdata[r].access_token
    /\ localStorage["user"] = <<"json", rdata[r].user>>

C3_ExchangeFailureHandled ==
    [][\A r \in Runs :
          (inputs[r] = <<>> /\ inputs'[r] \in {<<"reject">>, <<"notok">>}) =>
              /\ pc'[r] = "done"
              /\ location = CallbackPath => status' = "error"
              /\ scheduled' = [scheduled EXCEPT ![r] = <<LoginRedirect>>]
              /\ Len(timers') = Len(timers) + 1
              /\ timers'[Len(timers')].target = "/login"
              /\ timers'[Len(timers')].remaining = 3000
              /\ ~uncaught']_vars

C3_Witness ==
    /\ location = CallbackPath
    /\ \E r \in Runs :
          /\ inputs[r] = <<"notok">>
          /\ pc[r] = "done"
          /\ branch[r] = "catch"
    /\ status = "error"
    /\ ~uncaught

\* C4 as stated: once a run has stored the session, localStorage holds,
\* besides the credential and the profile, an issue or expiry timestamp.
C4_SessionHoldsTimestamp ==
    (\E r \in Runs : branch[r] = "success") =>
        \E k \in DOMAIN localStorage : k \notin {"auth_token", "user"}

\* C5 as stated: the dashboard is shown only after an access token was
\* stored.
C5_DashboardOnlyWithSession ==
    location = "/" => Stored("auth_token")

----------------------------------------------------------------------------
(* Properties of the Job State Machine                                     *)

InSequence(st) == st # "failed"

Last(q) == q[Len(q)]

Max(S) == CHOOSE x \in S : \A y \in S : y <= x

\* C6: after each event, the status is not earlier in the canonical
\* sequence than any status the job has had.
C6_Monotonic ==
    InSequence(job.status) =>
        \A st \in seen : InSequence(st) => Rank(st) <= Rank(job.status)

C6_Witness ==
    /\ delivered = <<"committing", "refactoring">>
    /\ job.status = "committing"

\* C7: once the status is failed, no later event of any type changes it.
C7_FailedAbsorbing ==
    "failed" \in seen => job.status = "failed"

C7_Witness ==
    /\ Len(delivered) = 3
    /\ delivered[1] = "analyzing"
    /\ delivered[2] = "failed"
    /\ delivered[3] = "opened"
    /\ job.status = "failed"

\* C8: applying an event a second time gives the job state that applying it
\* once gave, for every job state and every event.
C8_Idempotent ==
    /\ \A e \in Statuses : reduce(reduce(job, e), e) = reduce(job, e)
    /\ delivered # <<>> => reduce(job, Last(delivered)) = job

C8_Witness ==
    /\ delivered = <<"refactoring", "refactoring">>
    /\ job.status = "refactoring"

\* C9: when no failed event was delivered, the status is the latest in the
\* canonical sequence among queued and the statuses delivered.
C9_LatestDelivered ==
    (\A i \in 1..Len(delivered) : delivered[i] # "failed") =>
        Rank(job.status) =
            Max({1} \cup {Rank(delivered[i]) : i \in 1..Len(delivered)})

C9_Witness ==
    \/ /\ delivered = <<"queued", "refactoring", "analyzing">>
       /\ job.status = "refactoring"
    \/ /\ delivered = Canonical
       /\ job.status = "opened"

----------------------------------------------------------------------------
(* Properties of MultiFileCodeCard                                         *)

\* C10 as stated: while no tab was clicked, the active file is the first
\* file of the current file sequence.
C10_DefaultsToFirstFile ==
    (mounted = "yes" /\ ~userSelected /\ ~noFiles(files)) =>
        activeFile = firstName(files)

\* the names the files of the current sequence go by in the panel list
panelNames(f) == {panelName(f, i) : i \in 1..Len(f.items)}

\* C11 as stated: a selection by a name that no file of the current
\* sequence has leaves the active selection as it was.
C11_AbsentNameKeepsSelection ==
    [][(/\ mounted = "yes"
        /\ mounted' = "yes"
        /\ ~noFiles(files)
        /\ files' = files
        /\ activeFile' \notin panelNames(files)) =>
            activeFile' = activeFile]_vars

\* the number of lines of a content: its newline-separated pieces
LinesOf(c) == Len(SelectSeq(c, LAMBDA ch : ch = "\n")) + 1

RECURSIVE TotalAfterLines(_)
TotalAfterLines(items) ==
    IF items = <<>> THEN 0
    ELSE LinesOf(IF Head(items).new.present
                    THEN Head(items).new.content ELSE <<>>)
         + TotalAfterLines(Tail(items))

\* C12: whenever the card shows statistics, Files Changed is the number of
\* files of the current sequence and Lines Written is the sum of the line
\* counts of their "after" contents (an empty or missing content counts as
\* one line), never a value of an earlier sequence.
C12_StatsFollowFiles ==
    (mounted = "yes" /\ ~noFiles(files)) =>
        view.stats = <<Len(files.items), TotalAfterLines(files.items)>>

\* the sequence was replaced after the first render (the selection is still
\* that of the first sequence) and the statistics are those of the new one
C12_Witness ==
    /\ mounted = "yes"
    /\ ~userSelected
    /\ activeFile = "a.js"
    /\ files.kind = "array"
    /\ Len(files.items) = 1
    /\ files.items[1].old.name = "b.js"
    /\ files.items[1].new.present
    /\ view.stats = <<1, 1>>

\* C13 as stated: every comparison on screen is of a file that has both its
\* before and its after side, or neither.
C13_BothSidesOrNeither ==
    \A k \in 1..Len(view.panels) :
        LET file == files.items[view.panels[k].index]
        IN  file.old.present = file.new.present

\* C18 as stated: with an empty files prop, or one that is no array, the
\* card shows the "No files to display" state and nothing else.
C18_NoFilesState ==
    (mounted # "no" /\ noFiles(files)) => view = EmptyView

\* C19 as stated: with a non-empty sequence exactly one comparison panel is
\* on screen, and it is the panel of the file whose tab is highlighted.
C19_OnePanelOfActiveTab ==
    (mounted = "yes" /\ ~noFiles(files)) =>
        /\ Len(view.panels) = 1
        /\ view.tabs[view.panels[1].index].highlighted

\* C20 as stated: all renders of one mounted instance call the same
\* sequence of hooks.
C20_SameHooksEveryRender ==
    Cardinality(hooksSeen) <= 1


\* the localStorage.setItem calls that a run completed
Wrote(r) ==
    {effects[r][i] : i \in 1..Len(effects[r])}
        \cap {"setItem:auth_token", "setItem:user"}

NothingSentNorStored ==
    /\ fetchLog = <<>>
    /\ \A r \in Runs : Wrote(r) = {}

\* C14 as stated: when the callback URL carries an error parameter (present
\* in the URL) or lacks a code parameter, no token-exchange request is sent
\* and nothing is stored by the page.
C14_NoExchangeOnErrorOrNoCode_AsStated ==
    (searchParams.error # NULL \/ searchParams.code = NULL) =>
        NothingSentNorStored

\* C14 amended: when the error parameter has a non-empty value, or the code
\* parameter is absent or empty, no token-exchange request is sent and no
\* run writes to localStorage; a non-empty error takes precedence over a
\* code that is present.
C14_NoExchangeOnErrorOrNoCode ==
    (Truthy(searchParams.error) \/ ~Truthy(searchParams.code)) =>
        /\ NothingSentNorStored
        /\ \A r \in Runs : pc[r] \in {"idle", "done"}
        /\ \A r \in Runs :
              pc[r] = "done" =>
                  branch[r] = IF Truthy(searchParams.error)
                                 THEN "error_param" ELSE "no_code"

C14_Witness ==
    /\ Truthy(searchParams.error)
    /\ Truthy(searchParams.code)
    /\ \A r \in Runs : pc[r] = "done" /\ branch[r] = "error_param"
    /\ fetchLog = <<>>
    /\ status = "error"


SetStatusCalls(r) ==
    Cardinality({i \in 1..Len(effects[r]) : effects[r][i] = "setStatus"})

\* a run that reached its end
Ended(r) ==
    /\ pc[r] = "done"
    /\ status \in {"success", "error"}
    /\ Len(ScheduledBy(r)) = 1
    /\ SetStatusCalls(r) = 1

\* C15: every run of handleCallback whose token exchange settles ends, with
\* the status "success" or "error" and exactly one redirect scheduled by the
\* run (unless the page is unloaded first, which discards the run); a run
\* sets the status once, and no exception escapes it.
C15_RunEnds ==
    /\ [](\A r \in Runs :
            /\ SetStatusCalls(r) <= 1
            /\ Len(ScheduledBy(r)) <= 1
            /\ pc[r] = "done" => Ended(r))
    /\ []~uncaught
    /\ \A r \in Runs :
          (pc[r] \notin {"idle", "done"}) ~> (pc[r] = "idle" \/ Ended(r))

C15_Witness ==
    /\ location = CallbackPath
    /\ inputs[1] = SuccessInputs
    /\ Ended(1)
    /\ status = "success"
    /\ pc[2] = "done"
    /\ inputs[2] = <<"ok", "reject">>
    /\ Ended(2)


\* the redirect timers of handleCallback runs that have not fired yet
PendingRedirects == {i \in 1..Len(timers) : timers[i].owner # 0}

\* C16: during one visit of the callback page, whatever the interleaving of
\* the handleCallback runs, at most one redirect timer is pending, so a
\* navigation to / and one to /login are never both scheduled, and a status
\* of "success" is never replaced by "error".
C16_OneRedirectPending ==
    /\ [](Cardinality(PendingRedirects) <= 1)
    /\ [](\A i, j \in PendingRedirects : timers[i].target = timers[j].target)
    /\ [][status = "success" => status' # "error"]_vars

\* C17: a run that ended in an error exit wrote neither auth_token nor
\* user to localStorage; a run that ended with success wrote both.
C17_StoreAllOrNothing ==
    \A r \in Runs :
        pc[r] = "done" =>
            Wrote(r) = IF branch[r] = "success"
                          THEN {"setItem:auth_token", "setItem:user"}
                          ELSE {}


----------------------------------------------------------------------------
(* Properties of the login page                                            *)

\* a login attempt starts: an email timer is set or the browser is sent to
\* GitHub
AttemptStarts ==
    \/ Len(scheduled'[0]) > Len(scheduled[0])
    \/ location = LoginPath /\ location' = GitHubAuthorize

\* C21: on the login page isLoading is true whenever a login attempt (the
\* redirect to GitHub or the email timer) is in flight, no login attempt
\* starts while one is in flight, and at most one email redirect timer is
\* pending.
C21_OneLoginAttempt ==
    /\ []((location = LoginPath /\ EmailTimers # {}) => isLoading)
    /\ [](location = GitHubAuthorize => isLoading)
    /\ [](Cardinality(EmailTimers) <= 1)
    /\ [][AttemptStarts => (~isLoading /\ EmailTimers = {})]_vars

====
